---- MODULE Spec2Model ----
(***************************************************************************)
(* A model of ocr-paste (src/main.rs, src/transcribe.rs): the listener     *)
(* thread that forwards key events over an mpsc channel, the worker thread *)
(* that runs one capture / process / paste / restore cycle per trigger     *)
(* press, and the transcription helper with its temporary directory.       *)
(*                                                                         *)
(* Strings are sequences of one-character strings so that extension        *)
(* splitting, lower-casing and trimming are computed, not assumed.         *)
(* The outcome of every call that leaves the program (clipboard, temp      *)
(* file creation, ffmpeg, Tesseract, the OpenAI request, key injection) is *)
(* chosen nondeterministically at the step that makes the call.            *)
(***************************************************************************)
EXTENDS Integers, Sequences, FiniteSets, TLC

\* ------------------------------------------------------------------ bounds

\* The number of key events the listener delivers in one behaviour.
MaxEvents == 2

\* ------------------------------------------------------- option / strings

None == <<"None">>
Some(v) == <<"Some", v>>
IsSome(o) == o[1] = "Some"
Unwrap(o) == o[2]

UpperChars == <<"A","B","C","D","E","F","G","H","I","J","K","L","M",
                "N","O","P","Q","R","S","T","U","V","W","X","Y","Z">>
LowerChars == <<"a","b","c","d","e","f","g","h","i","j","k","l","m",
                "n","o","p","q","r","s","t","u","v","w","x","y","z">>

\* char::to_lowercase on the ASCII letters the model uses, as a table.
LowerOf ==
    [u \in {UpperChars[i] : i \in 1..Len(UpperChars)} |->
        LowerChars[CHOOSE i \in 1..Len(UpperChars) : UpperChars[i] = u]]

\* char::to_lowercase: a letter outside the table is returned as it is.
LowerChar(c) == IF c \in DOMAIN LowerOf THEN LowerOf[c] ELSE c

\* A mutant of to_lowercase: the extension is compared as written.
to_lowercase_Identity(s) == s

\* str::to_lowercase / OsStr::to_ascii_lowercase.
to_lowercase(s) == [i \in 1..Len(s) |-> LowerChar(s[i])]

\* Path::extension on a file name: the part after the last '.', None when
\* there is no '.' or when the only '.' starts the name.
extension(p) ==
    LET dots == {i \in 1..Len(p) : p[i] = "."}
    IN  IF dots = {} THEN None
        ELSE LET k == CHOOSE i \in dots : \A j \in dots : j <= i
             IN  IF k = 1 THEN None ELSE Some(SubSeq(p, k + 1, Len(p)))

\* Option<String>::unwrap_or_default.
unwrap_or_default(o) == IF IsSome(o) THEN Unwrap(o) ELSE <<>>

WhiteSpace == {" ", "\n", "\t"}

RECURSIVE trim_start(_)
trim_start(s) ==
    IF s # <<>> /\ Head(s) \in WhiteSpace THEN trim_start(Tail(s)) ELSE s

RECURSIVE trim_end(_)
trim_end(s) ==
    IF s # <<>> /\ s[Len(s)] \in WhiteSpace
    THEN trim_end(SubSeq(s, 1, Len(s) - 1)) ELSE s

\* A mutant of trim: the text is used as the backend returned it.
trim_Nothing(s) == s

\* str::trim.
trim(s) == trim_end(trim_start(s))

\* ---------------------------------------------------------- the constants

AUDIO_EXTENSIONS ==
    { <<"w","a","v">>, <<"m","p","3">>, <<"m","4","a">>, <<"o","g","g">>,
      <<"f","l","a","c">>, <<"a","a","c">>, <<"w","m","a">>,
      <<"o","p","u","s">>, <<"a","i","f","f">>, <<"a","i","f">> }

VIDEO_EXTENSIONS ==
    { <<"m","p","4">>, <<"m","k","v">>, <<"m","o","v">>, <<"a","v","i">>,
      <<"w","m","v">>, <<"f","l","v">>, <<"w","e","b","m">>,
      <<"m","p","e","g">>, <<"m","p","g">>, <<"m","4","v">>,
      <<"3","g","p">> }

\* 25 * 1024 * 1024, the Whisper upload ceiling in bytes.
WhisperLimit == 25 * 1024 * 1024


\* ------------------------------------------------------------ file names

A_WAV == <<"a",".","w","a","v">>
B_WAV == <<"b",".","w","a","v">>
A_MP3 == <<"a",".","M","P","3">>
A_MP4 == <<"a",".","M","p","4">>
A_TXT == <<"a",".","t","x","t">>
NO_EXT == <<"a">>
DOT_MP3 == <<".","m","p","3">>

\* A mutant of EXTRACTED_MP3: the extracted audio gets the suffix ".wav".
EXTRACTED_WAV == <<"e","x","_",".","w","a","v">>

\* The name TempFileBuilder gives the extracted audio: prefix
\* "extracted_audio_", suffix ".mp3".
EXTRACTED_MP3 == <<"e","x","_",".","m","p","3">>

FileLists ==
    { <<>>, <<A_WAV, B_WAV>>, <<A_WAV>>, <<A_MP3>>, <<A_MP4>>, <<A_TXT>>,
      <<NO_EXT>>, <<DOT_MP3>> }

\* Bitmap bytes: one image::load_from_memory decodes, one it does not.
Bitmaps == {"bmp_ok", "bmp_bad"}
Decodes(data) == data = "bmp_ok"

\* What a backend (Tesseract stdout, the Whisper response) can return.
BackendTexts == { <<>>, <<" ","\n">>, <<" ","h","i","\n">> }

\* File sizes std::fs::metadata can report for the file to upload.
Sizes == {0, 1, WhisperLimit, WhisperLimit + 1}

\* --------------------------------------------------------- the clipboard

\* The OS clipboard holds at most one value per format.
MkClip(f, b, t) == [files |-> f, bitmap |-> b, text |-> t]
EmptyClip == MkClip(None, None, None)

Clipboards ==
    { MkClip(Some(fl), None, None) : fl \in FileLists }
    \cup { MkClip(None, Some(b), None) : b \in Bitmaps }
    \cup { MkClip(None, None, Some(<<"t">>)),
           MkClip(Some(<<A_MP3>>), Some("bmp_ok"), None) }

\* enum ClipboardContent.
FileList(files) == [tag |-> "FileList", val |-> files]
Bitmap(data) == [tag |-> "Bitmap", val |-> data]

\* No payload: outside a cycle, and in a cycle before the capture.
NoContent == [tag |-> "None", val |-> <<>>]

\* Result values.
Ok(v) == <<"Ok", v>>
Err(e) == <<"Err", e>>
IsOk(r) == r[1] = "Ok"
IsErr(r) == r[1] = "Err"

\* The clipboard after a write of one format: the library empties the
\* clipboard and sets the one format.
ClipOf(content) ==
    IF content.tag = "FileList"
    THEN MkClip(Some(content.val), None, None)
    ELSE MkClip(None, Some(content.val), None)

\* A clipboard write either succeeds, fails to open the clipboard within
\* its ten attempts, or fails in the write itself, which may already have
\* emptied the clipboard.
ClipWriteOutcomes == {"ok", "open_failed", "write_failed", "write_failed_cleared"}

\* With the clipboard open the write succeeds or fails; without it the
\* function has returned the failure to open.
OutcomesWhen(held) ==
    IF held THEN ClipWriteOutcomes \ {"open_failed"} ELSE {"open_failed"}

\* A mutant of drop_clip: an error return leaves the clipboard open.
drop_clip_OnSuccessOnly(held, ok) == held /\ ~ok

\* `_clip drops here`: the guard closes the clipboard when the function
\* returns, whatever it returns.
drop_clip(held, ok) == FALSE

\* The program points at which one of the three clipboard functions is
\* called.
ClipboardCalls == {"capture", "restore_empty", "set_text", "restore_ok", "restore_err"}

ClipAfterWrite(c, outcome, new) ==
    CASE outcome = "ok" -> new
      [] outcome = "write_failed_cleared" -> EmptyClip
      [] OTHER -> c

\* A mutant of get_clipboard_content: the bitmap is probed first.
get_clipboard_content_BitmapFirst(c, opened, flRead, bmpRead) ==
    IF ~opened THEN Err("ClipboardOpen")
    ELSE IF IsSome(c.bitmap) /\ bmpRead THEN Ok(Bitmap(Unwrap(c.bitmap)))
    ELSE IF IsSome(c.files) /\ flRead THEN Ok(FileList(Unwrap(c.files)))
    ELSE Err("NoSupportedFormat")

\* get_clipboard_content: the file list is probed first, then the bitmap.
get_clipboard_content(c, opened, flRead, bmpRead) ==
    IF ~opened THEN Err("ClipboardOpen")
    ELSE IF IsSome(c.files) /\ flRead THEN Ok(FileList(Unwrap(c.files)))
    ELSE IF IsSome(c.bitmap) /\ bmpRead THEN Ok(Bitmap(Unwrap(c.bitmap)))
    ELSE Err("NoSupportedFormat")

\* -------------------------------------------------------------- dispatch

\* The lower-cased extension process_clipboard_and_paste compares.
file_extension(path) == unwrap_or_default(
    IF IsSome(extension(path)) THEN Some(to_lowercase(Unwrap(extension(path))))
    ELSE None)

\* A mutant of Route: the first file of a longer list is processed.
Route_FirstOfMany(content) ==
    IF content.tag = "FileList"
    THEN IF Len(content.val) >= 1
         THEN IF file_extension(content.val[1]) \in AUDIO_EXTENSIONS THEN "audio"
              ELSE IF file_extension(content.val[1]) \in VIDEO_EXTENSIONS THEN "video"
              ELSE "unsupported_type"
         ELSE "unsupported_count"
    ELSE "image"

\* The branch process_clipboard_and_paste takes for a captured payload.
Route(content) ==
    IF content.tag = "FileList"
    THEN IF Len(content.val) = 1
         THEN IF file_extension(content.val[1]) \in AUDIO_EXTENSIONS THEN "audio"
              ELSE IF file_extension(content.val[1]) \in VIDEO_EXTENSIONS THEN "video"
              ELSE "unsupported_type"
         ELSE "unsupported_count"
    ELSE "image"

\* A mutant of is_mp3: the extension is compared as written.
is_mp3_CaseSensitive(path) == unwrap_or_default(extension(path)) = <<"m","p","3">>

\* ensure_mp3's test: the input is used as it is when its extension is mp3.
is_mp3(path) == to_lowercase(unwrap_or_default(extension(path))) = <<"m","p","3">>

\* ----------------------------------------------------------------- events

\* The keys --trigger-key accepts (PTTKey): a function key and the two
\* keys the paste simulation injects.
TriggerKeys == {"F9", "ControlLeft"}

VARIABLE trigger_key     \* args.trigger_key

\* `let target_key: rdev::Key = args.trigger_key.into();`
target_key == trigger_key

EventKinds ==
    { [event_type |-> "KeyPress", key |-> target_key],
      [event_type |-> "KeyRelease", key |-> target_key],
      [event_type |-> "KeyPress", key |-> "KeyA"],
      [event_type |-> "MouseMove", key |-> "none"] }

\* A mutant of IsTrigger: the key of a press is not compared.
IsTrigger_AnyPress(e) == e.event_type = "KeyPress"

IsTrigger(e) == e.event_type = "KeyPress" /\ e.key = target_key

\* ------------------------------------------------------------------ state

VARIABLES
    sent,        \* the events the listener callback was called with, in order
    queue,       \* the mpsc channel: indexes into sent not yet received
    rx_open,     \* the Receiver exists (the worker thread has not returned)
    pc,          \* where the worker thread is
    cur,         \* the index in sent of the trigger press being processed
    started,     \* the trigger presses whose cycle started, in start order
    ended,       \* the trigger presses whose cycle ended, in end order
    clip,        \* the OS clipboard
    api_key,     \* args.openai_api_key.is_some()
    payload,     \* original_content of the current cycle
    result,      \* processed_text_result of the current cycle
    ret,         \* what the current cycle returned (process_result)
    audio_path,  \* audio_path_to_transcribe
    temps,       \* the temp artifacts that exist on disk
    guards,      \* the temp guards (NamedTempFile, TempDir) that are alive
    tick,        \* the number of tick_loop threads that are alive
    tick_stop,   \* the stop message is in the tick thread's channel
    log,         \* the external operations of the current cycle, in order
    listening,   \* main's listen(callback): "setup", "on" or "failed"
    holding,     \* the worker holds the OS clipboard open (a live `_clip`)
    beeps,       \* args.beeps
    sounds,      \* the sounds the worker played in the current cycle, in order
    simulated    \* the positions in sent of the events the program injected

chan == <<sent, queue, rx_open, listening>>
conf == <<api_key, beeps, trigger_key>>
hist == <<started, ended, simulated>>
cycle == <<payload, result, ret, audio_path, log>>
disk == <<temps, guards>>
ticker == <<tick, tick_stop>>
vars == <<sent, queue, rx_open, pc, cur, started, ended, clip, api_key,
          payload, result, ret, audio_path, temps, guards, tick, tick_stop, log,
          listening, holding, beeps, sounds, trigger_key, simulated>>

\* An entry of the log, and the number of entries of one operation.
Op(op, arg) == [op |-> op, arg |-> arg]
CountOf(op) == Cardinality({i \in 1..Len(log) : log[i].op = op})

Init ==
    /\ sent = <<>> /\ queue = <<>> /\ rx_open = TRUE
    /\ pc = "boot" /\ cur = 0
    /\ started = <<>> /\ ended = <<>>
    /\ clip \in Clipboards
    /\ api_key \in BOOLEAN
    /\ payload = NoContent /\ result = None /\ ret = None /\ audio_path = None
    /\ temps = {} /\ guards = {} /\ tick = 0 /\ tick_stop = FALSE
    /\ log = <<>>
    /\ listening = "setup"
    /\ holding = FALSE
    /\ beeps \in BOOLEAN
    /\ trigger_key \in TriggerKeys
    /\ simulated = {}
    /\ sounds = <<>>


\* ---------------------------------------------------------- the listener

\* The listen callback: every event is sent on the channel; a send error
\* (the Receiver is gone) is ignored.
ListenerCallback(e) ==
    /\ listening = "on"
    /\ Len(sent) < MaxEvents
    /\ sent' = Append(sent, e)
    /\ queue' = IF rx_open THEN Append(queue, Len(sent) + 1) ELSE queue
    /\ UNCHANGED <<rx_open, listening, pc, cur, hist, clip, holding, conf, sounds, cycle, disk, ticker>>

\* Another application puts something on the clipboard. The environment
\* does so only while the worker waits for an event.
UserCopies(c) ==
    /\ pc = "recv"
    /\ c # clip
    /\ clip' = c
    /\ UNCHANGED <<chan, pc, cur, hist, holding, conf, sounds, cycle, disk, ticker>>

\* ------------------------------------------------------------ the worker

\* The worker thread starts: Runtime::new() succeeds, or the thread logs a
\* fatal error and returns, which drops the Receiver and what it holds.
WorkerStart ==
    /\ pc = "boot"
    /\ \E rt_ok \in BOOLEAN :
         IF rt_ok
         THEN pc' = "recv" /\ UNCHANGED <<queue, rx_open>>
         ELSE pc' = "dead" /\ rx_open' = FALSE /\ queue' = <<>>
    /\ UNCHANGED <<sent, listening, cur, hist, clip, holding, conf, sounds, cycle, disk, ticker>>

\* A mutant of recv: the newest event is taken first.
recv_Newest(q) == <<q[Len(q)], SubSeq(q, 1, Len(q) - 1)>>

\* play_sound / play_failure_sound: the sound is played to its end.
play_sound(s, sound) == Append(s, sound)

\* `for event in event_rx`: the oldest event in the channel and the rest.
recv(q) == <<Head(q), Tail(q)>>

\* The loop body's test: a trigger press starts a cycle, any other event
\* is dropped.
WorkerRecv ==
    /\ pc = "recv"
    /\ queue # <<>>
    /\ LET i == recv(queue)[1] IN
         /\ queue' = recv(queue)[2]
         /\ IF IsTrigger(sent[i])
            THEN /\ pc' = "capture"
                 /\ cur' = i
                 /\ started' = Append(started, i)
                 /\ sounds' = IF beeps THEN play_sound(sounds, "Start") ELSE sounds
            ELSE UNCHANGED <<pc, cur, started, sounds>>
    /\ UNCHANGED <<sent, rx_open, listening, ended, simulated, clip, holding, conf, cycle,
                   disk, ticker>>

\* `Clipboard::new_attempts(10)` succeeds in one of the three clipboard
\* functions: the worker holds the clipboard until the function returns.
OpenClipboard ==
    /\ pc \in ClipboardCalls
    /\ ~holding
    /\ holding' = TRUE
    /\ UNCHANGED <<chan, pc, cur, hist, clip, conf, sounds, cycle, disk, ticker>>

\* What a read of try_get_clipboard_content finds, or would find if it were
\* made: the format's value when the clipboard is open, the format is
\* present and its read succeeds.
ReadFormat(opened, present, readOk) ==
    IF opened /\ IsSome(present) /\ readOk THEN present ELSE None

\* The log entry of a capture: its result and what the reads found.
CaptureEntry(r, opened, fl, bmp) ==
    Op("capture", [res |-> r, opened |-> opened, fl |-> fl, bmp |-> bmp])

\* A mutant of Capture: the capture error is not printed.
Capture_Silent ==
    /\ pc = "capture"
    /\ \E flRead \in BOOLEAN, bmpRead \in BOOLEAN :
         LET opened == holding
             r == get_clipboard_content(clip, opened, flRead, bmpRead)
             e == CaptureEntry(r, opened, ReadFormat(opened, clip.files, flRead),
                               ReadFormat(opened, clip.bitmap, bmpRead)) IN
           /\ log' = Append(log, e)
           /\ holding' = drop_clip(holding, IsOk(r))
           /\ IF IsOk(r)
              THEN payload' = r[2] /\ pc' = "dispatch" /\ UNCHANGED ret
              ELSE ret' = r /\ pc' = "report" /\ UNCHANGED payload
    /\ UNCHANGED <<chan, cur, hist, clip, conf, sounds, result, audio_path, disk, ticker>>

\* get_clipboard_content, and main's match on it: an error is printed with
\* eprintln and ends the cycle.
Capture ==
    /\ pc = "capture"
    /\ \E flRead \in BOOLEAN, bmpRead \in BOOLEAN :
         LET opened == holding
             r == get_clipboard_content(clip, opened, flRead, bmpRead)
             e == CaptureEntry(r, opened, ReadFormat(opened, clip.files, flRead),
                               ReadFormat(opened, clip.bitmap, bmpRead)) IN
           /\ holding' = drop_clip(holding, IsOk(r))
           /\ IF IsOk(r)
              THEN /\ log' = Append(log, e)
                   /\ payload' = r[2] /\ pc' = "dispatch" /\ UNCHANGED ret
              ELSE /\ log' = log \o <<e, Op("eprintln", r[2])>>
                   /\ ret' = r /\ pc' = "report" /\ UNCHANGED payload
    /\ UNCHANGED <<chan, cur, hist, clip, conf, sounds, result, audio_path, disk, ticker>>

\* The match on original_content and the extension test.
Dispatch ==
    /\ pc = "dispatch"
    /\ LET route == Route(payload) IN
         /\ pc' = CASE route = "audio" -> "cred"
                    [] route = "video" -> "mktemp_audio"
                    [] route = "unsupported_type" -> "return"
                    [] route = "unsupported_count" -> "handle"
                    [] route = "image" -> "mktemp_image"
         /\ audio_path' = IF route = "audio" THEN Some(payload.val[1]) ELSE audio_path
         /\ ret' = IF route = "unsupported_type" THEN Err("UnsupportedFileType") ELSE ret
         /\ result' = IF route = "unsupported_count"
                      THEN Err("UnsupportedFileCount") ELSE result
    /\ UNCHANGED <<chan, cur, hist, clip, holding, conf, sounds, payload, log, disk, ticker>>

\* TempFileBuilder ... tempfile_in for the extracted audio; `?` on failure.
MkTempAudio ==
    /\ pc = "mktemp_audio"
    /\ \E created \in BOOLEAN :
         IF created
         THEN /\ temps' = temps \cup {"extracted_audio"}
              /\ guards' = guards \cup {"audio_guard"}
              /\ pc' = "ffmpeg_extract"
              /\ UNCHANGED ret
         ELSE /\ ret' = Err("TempFileCreate")
              /\ pc' = "return"
              /\ UNCHANGED disk
    /\ UNCHANGED <<chan, cur, hist, clip, holding, conf, sounds, payload, result, audio_path, log, ticker>>

\* How a launched subprocess can end.
ProcessOutcomes == {"not_found", "io_error", "nonzero", "success"}

\* Command::new("ffmpeg") ... -vn ... output(): `?` on a launch failure,
\* `return Err` on a non-zero exit.
FfmpegExtract ==
    /\ pc = "ffmpeg_extract"
    /\ \E o \in ProcessOutcomes :
         /\ log' = Append(log, Op("ffmpeg_extract", o))
         /\ IF o = "success"
            THEN /\ audio_path' = Some(EXTRACTED_MP3)
                 /\ pc' = "cred"
                 /\ UNCHANGED ret
            ELSE /\ ret' = IF o = "nonzero" THEN Err("FfmpegExtractFailed")
                           ELSE Err("FfmpegLaunch")
                 /\ pc' = "return"
                 /\ UNCHANGED audio_path
    /\ UNCHANGED <<chan, cur, hist, clip, holding, conf, sounds, payload, result, disk, ticker>>

\* args.openai_api_key.as_ref().ok_or_else(...)?
Credential ==
    /\ pc = "cred"
    /\ IF api_key
       THEN pc' = "spawn_tick" /\ UNCHANGED ret
       ELSE pc' = "return" /\ ret' = Err("ApiKeyMissing")
    /\ UNCHANGED <<chan, cur, hist, clip, holding, conf, sounds, payload, result, audio_path, log,
                   disk, ticker>>

\* thread::spawn(tick_loop), then rt.block_on(transcribe(..)) begins.
SpawnTick ==
    /\ pc = "spawn_tick"
    /\ tick' = tick + 1 /\ tick_stop' = FALSE
    /\ log' = Append(log, Op("transcribe", Unwrap(audio_path)))
    /\ pc' = "t_tempdir"
    /\ UNCHANGED <<chan, cur, hist, clip, holding, conf, sounds, payload, result, ret, audio_path, disk>>


\* A mutant of Owned: the extracted-audio file is kept (persisted) rather
\* than deleted when its guard drops.
Owned_KeepAudio(g) ==
    CASE g = "audio_guard" -> {}
      [] g = "image_guard" -> {"ocr_png"}
      [] g = "temp_dir" -> {"transcribe_dir", "converted_mp3"}

\* What dropping a guard deletes: a NamedTempFile its file, the TempDir the
\* directory and everything in it.
Owned(g) ==
    CASE g = "audio_guard" -> {"extracted_audio"}
      [] g = "image_guard" -> {"ocr_png"}
      [] g = "temp_dir" -> {"transcribe_dir", "converted_mp3"}

\* The files left after the guards gs are dropped.
Drop(gs, ts) == ts \ UNION {Owned(g) : g \in gs}

\* transcribe returns: temp_dir goes out of scope, then the worker is back
\* in process_clipboard_and_paste at the tick thread's stop and join.
TranscribeReturns(r, ts) ==
    /\ result' = r
    /\ temps' = Drop({"temp_dir"}, ts)
    /\ guards' = guards \ {"temp_dir"}
    /\ pc' = "stop_tick"

\* tempdir() in transcribe.
T_TempDir ==
    /\ pc = "t_tempdir"
    /\ \E created \in BOOLEAN :
         IF created
         THEN /\ temps' = temps \cup {"transcribe_dir"}
              /\ guards' = guards \cup {"temp_dir"}
              /\ pc' = "t_ensure_mp3"
              /\ UNCHANGED result
         ELSE TranscribeReturns(Err("TempDirCreate"), temps)
    /\ UNCHANGED <<chan, cur, hist, clip, holding, conf, sounds, payload, ret, audio_path, log, ticker>>

\* ensure_mp3: an mp3 input is used as it is; any other input is converted
\* by ffmpeg into the temp directory.
T_EnsureMp3 ==
    /\ pc = "t_ensure_mp3"
    /\ IF is_mp3(Unwrap(audio_path))
       THEN pc' = "t_metadata" /\ UNCHANGED <<result, disk, log>>
       ELSE \E o \in ProcessOutcomes, wrote \in BOOLEAN :
              /\ o = "success" => wrote
              /\ o \in {"not_found", "io_error"} => ~wrote
              /\ log' = Append(log, Op("ffmpeg_convert", o))
              /\ LET ts == IF wrote THEN temps \cup {"converted_mp3"} ELSE temps IN
                   IF o = "success"
                   THEN temps' = ts /\ pc' = "t_metadata" /\ UNCHANGED <<result, guards>>
                   ELSE TranscribeReturns(
                          Err(CASE o = "not_found" -> "FfmpegNotFound"
                                [] o = "io_error" -> "FfmpegExec"
                                [] o = "nonzero" -> "FfmpegConvertFailed"), ts)
    /\ UNCHANGED <<chan, cur, hist, clip, holding, conf, sounds, payload, ret, audio_path, ticker>>

\* A mutant of size_check: the emptiness test is missing.
size_check_NoEmptyTest(len) ==
    IF len > WhisperLimit THEN "too_large" ELSE "ok"

\* The two size tests of transcribe on metadata.len().
size_check(len) ==
    IF len > WhisperLimit THEN "too_large"
    ELSE IF len = 0 THEN "empty" ELSE "ok"

\* std::fs::metadata on the file to upload, then the size tests.
T_Metadata ==
    /\ pc = "t_metadata"
    /\ \E m \in {None} \cup {Some(n) : n \in Sizes} :
         /\ log' = Append(log, Op("metadata", m))
         /\ IF IsSome(m) /\ size_check(Unwrap(m)) = "ok"
            THEN pc' = "t_request" /\ UNCHANGED <<result, disk>>
            ELSE TranscribeReturns(
                   Err(IF ~IsSome(m) THEN "Metadata"
                       ELSE IF size_check(Unwrap(m)) = "too_large" THEN "FileTooLarge"
                       ELSE "FileEmpty"), temps)
    /\ UNCHANGED <<chan, cur, hist, clip, holding, conf, sounds, payload, ret, audio_path, ticker>>

\* client.audio().transcribe(request).await
T_Request ==
    /\ pc = "t_request"
    /\ \E r \in {Err("ApiRequest")} \cup {Ok(t) : t \in BackendTexts} :
         /\ log' = Append(log, Op("request", log[Len(log)].arg))
         /\ TranscribeReturns(r, temps)
    /\ UNCHANGED <<chan, cur, hist, clip, holding, conf, sounds, payload, ret, audio_path, ticker>>

\* tick_tx.send(()): the stop message is in the tick thread's channel.
StopTick ==
    /\ pc = "stop_tick"
    /\ tick_stop' = TRUE
    /\ pc' = "join_tick"
    /\ UNCHANGED <<chan, cur, hist, clip, holding, conf, sounds, cycle, disk, tick>>

\* tick_loop, one turn of its loop with the stop message in the channel:
\* try_recv() is Ok, the sink stops and the thread ends. (Without the
\* message a turn changes nothing.)
tick_loop ==
    /\ tick > 0 /\ tick_stop
    /\ tick' = tick - 1
    /\ tick_stop' = FALSE
    /\ UNCHANGED <<chan, pc, cur, hist, clip, holding, conf, sounds, cycle, disk>>

\* A mutant of JoinTick: the worker does not wait for the tick thread.
JoinTick_Detached ==
    /\ pc = "join_tick"
    /\ sounds' = IF IsErr(result) THEN play_sound(sounds, "Failed") ELSE sounds
    /\ pc' = "handle"
    /\ UNCHANGED <<chan, cur, hist, clip, holding, conf, cycle, disk, ticker>>

\* tick_handle.join() returns once the tick thread has ended; then the
\* result gets its context and, if it is an error, play_failure_sound() runs.
JoinTick ==
    /\ pc = "join_tick"
    /\ tick = 0
    /\ sounds' = IF IsErr(result) THEN play_sound(sounds, "Failed") ELSE sounds
    /\ pc' = "handle"
    /\ UNCHANGED <<chan, cur, hist, clip, holding, conf, cycle, disk, ticker>>

\* TempFileBuilder ... tempfile_in for the OCR image; `?` on failure.
MkTempImage ==
    /\ pc = "mktemp_image"
    /\ \E created \in BOOLEAN :
         IF created
         THEN /\ temps' = temps \cup {"ocr_png"}
              /\ guards' = guards \cup {"image_guard"}
              /\ pc' = "decode"
              /\ UNCHANGED ret
         ELSE /\ ret' = Err("TempFileCreate")
              /\ pc' = "return"
              /\ UNCHANGED disk
    /\ UNCHANGED <<chan, cur, hist, clip, holding, conf, sounds, payload, result, audio_path, log, ticker>>

\* image::load_from_memory(bitmap_data)?
Decode ==
    /\ pc = "decode"
    /\ IF Decodes(payload.val)
       THEN pc' = "save_png" /\ UNCHANGED ret
       ELSE pc' = "return" /\ ret' = Err("ImageDecode")
    /\ UNCHANGED <<chan, cur, hist, clip, holding, conf, sounds, payload, result, audio_path, log,
                   disk, ticker>>

\* img.save_with_format(&temp_image_path, Png)?
SavePng ==
    /\ pc = "save_png"
    /\ \E saved \in BOOLEAN :
         IF saved
         THEN pc' = "tesseract" /\ UNCHANGED ret
         ELSE pc' = "return" /\ ret' = Err("ImageSave")
    /\ UNCHANGED <<chan, cur, hist, clip, holding, conf, sounds, payload, result, audio_path, log,
                   disk, ticker>>

\* command.output(): `?` on a launch failure; a non-zero exit and invalid
\* UTF-8 on stdout are the Err value of the match arm.
Tesseract ==
    /\ pc = "tesseract"
    /\ \E o \in ProcessOutcomes, stdout \in {None} \cup {Some(t) : t \in BackendTexts} :
         /\ o # "success" => stdout = None
         /\ log' = Append(log, Op("tesseract", o))
         /\ IF o \in {"not_found", "io_error"}
            THEN ret' = Err("TesseractLaunch") /\ pc' = "return" /\ UNCHANGED result
            ELSE /\ result' = IF o = "nonzero" THEN Err("TesseractFailed")
                              ELSE IF stdout = None THEN Err("InvalidUtf8")
                              ELSE Ok(Unwrap(stdout))
                 /\ pc' = "handle"
                 /\ UNCHANGED ret
    /\ UNCHANGED <<chan, cur, hist, clip, holding, conf, sounds, payload, audio_path, disk, ticker>>


\* `match processed_text_result`: empty after trim, non-empty, or Err.
Handle ==
    /\ pc = "handle"
    /\ pc' = IF IsOk(result)
             THEN IF trim(result[2]) = <<>> THEN "restore_empty" ELSE "set_text"
             ELSE "restore_err"
    /\ log' = IF IsErr(result) THEN Append(log, Op("eprintln", result[2])) ELSE log
    /\ UNCHANGED <<chan, cur, hist, clip, holding, conf, sounds, payload, result, ret,
                   audio_path, disk, ticker>>

\* restore_clipboard(content): the clipboard afterwards and the log entry.
restore_clipboard(content, o) ==
    /\ clip' = ClipAfterWrite(clip, o, ClipOf(content))
    /\ log' = Append(log, Op("restore", [content |-> content, outcome |-> o]))

\* The empty-result arm: restore_clipboard(original_content)?, then Ok(()).
RestoreEmpty ==
    /\ pc = "restore_empty"
    /\ \E o \in OutcomesWhen(holding) :
         /\ restore_clipboard(payload, o)
         /\ holding' = drop_clip(holding, o = "ok")
         /\ ret' = IF o = "ok" THEN Ok("unit") ELSE Err("Restore")
    /\ pc' = "return"
    /\ UNCHANGED <<chan, cur, hist, conf, sounds, payload, result, audio_path, disk, ticker>>

\* set_clipboard_string_helper(trimmed_text)?
SetText ==
    /\ pc = "set_text"
    /\ \E o \in OutcomesWhen(holding) :
         /\ clip' = ClipAfterWrite(clip, o, MkClip(None, None, Some(trim(result[2]))))
         /\ holding' = drop_clip(holding, o = "ok")
         /\ log' = Append(log, Op("set_text", [text |-> trim(result[2]), outcome |-> o]))
         /\ IF o = "ok"
            THEN pc' = "paste" /\ UNCHANGED ret
            ELSE pc' = "return" /\ ret' = Err("SetClipboardText")
    /\ UNCHANGED <<chan, cur, hist, conf, sounds, payload, result, audio_path, disk, ticker>>

\* The four events send_ctrl_v injects, in order.
PasteKeys ==
    << [event_type |-> "KeyPress", key |-> "ControlLeft"],
       [event_type |-> "KeyPress", key |-> "KeyV"],
       [event_type |-> "KeyRelease", key |-> "KeyV"],
       [event_type |-> "KeyRelease", key |-> "ControlLeft"] >>

\* The global listener sees an injected event like any other and its
\* callback sends it on the channel. (The model follows the first
\* MaxEvents events of a run, injected ones included.)
Forwarded(ev) ==
    IF Len(sent) < MaxEvents
    THEN /\ sent' = Append(sent, ev)
         /\ queue' = IF rx_open THEN Append(queue, Len(sent) + 1) ELSE queue
         /\ simulated' = simulated \cup {Len(sent) + 1}
    ELSE UNCHANGED <<sent, queue, simulated>>

\* A mutant of SendCtrlV: the function returns Ok after the third event.
SendCtrlV_ThreeEvents ==
    /\ pc = "paste"
    /\ LET n == CountOf("simulate") IN
       \E injected \in BOOLEAN :
         IF injected
         THEN /\ log' = Append(log, Op("simulate", PasteKeys[n + 1]))
              /\ Forwarded(PasteKeys[n + 1])
              /\ pc' = IF n + 1 = Len(PasteKeys) - 1 THEN "restore_ok" ELSE "paste"
              /\ UNCHANGED ret
         ELSE /\ log' = Append(log, Op("simulate_error", PasteKeys[n + 1]))
              /\ pc' = "return"
              /\ ret' = Err("Simulate")
              /\ UNCHANGED <<sent, queue, simulated>>
    /\ UNCHANGED <<rx_open, listening, cur, started, ended, clip, holding, conf, sounds,
                   payload, result, audio_path, disk, ticker>>

\* send_ctrl_v: one simulate call per step, `?` on each; a SimulateError
\* returns from process_clipboard_and_paste through map_err and `?`.
SendCtrlV ==
    /\ pc = "paste"
    /\ LET n == CountOf("simulate") IN
       \E injected \in BOOLEAN :
         IF injected
         THEN /\ log' = Append(log, Op("simulate", PasteKeys[n + 1]))
              /\ Forwarded(PasteKeys[n + 1])
              /\ pc' = IF n + 1 = Len(PasteKeys) THEN "restore_ok" ELSE "paste"
              /\ UNCHANGED ret
         ELSE /\ log' = Append(log, Op("simulate_error", PasteKeys[n + 1]))
              /\ pc' = "return"
              /\ ret' = Err("Simulate")
              /\ UNCHANGED <<sent, queue, simulated>>
    /\ UNCHANGED <<rx_open, listening, cur, started, ended, clip, holding, conf, sounds,
                   payload, result, audio_path, disk, ticker>>

\* The success arm's restore_clipboard(original_content)?, then Ok(()).
RestoreAfterPaste ==
    /\ pc = "restore_ok"
    /\ \E o \in OutcomesWhen(holding) :
         /\ restore_clipboard(payload, o)
         /\ holding' = drop_clip(holding, o = "ok")
         /\ ret' = IF o = "ok" THEN Ok("unit") ELSE Err("Restore")
    /\ pc' = "return"
    /\ UNCHANGED <<chan, cur, hist, conf, sounds, payload, result, audio_path, disk, ticker>>

\* restore_clipboard(content) in the Err(e) arm: a restore error is printed
\* with eprintln after the restore.
restore_and_print(content, o) ==
    /\ clip' = ClipAfterWrite(clip, o, ClipOf(content))
    /\ log' = log \o <<Op("restore", [content |-> content, outcome |-> o])>>
                  \o (IF o = "ok" THEN <<>> ELSE <<Op("eprintln", "Restore")>>)

\* A mutant of RestoreAfterError: a restore error replaces the original one.
RestoreAfterError_Replace ==
    /\ pc = "restore_err"
    /\ \E o \in OutcomesWhen(holding) :
         /\ restore_and_print(payload, o)
         /\ holding' = drop_clip(holding, o = "ok")
         /\ ret' = IF o = "ok" THEN result ELSE Err("Restore")
    /\ pc' = "return"
    /\ UNCHANGED <<chan, cur, hist, conf, sounds, payload, result, audio_path, disk, ticker>>

\* The Err(e) arm: restore, a restore error is only printed, Err(e).
RestoreAfterError ==
    /\ pc = "restore_err"
    /\ \E o \in OutcomesWhen(holding) :
         /\ restore_and_print(payload, o)
         /\ holding' = drop_clip(holding, o = "ok")
    /\ ret' = result
    /\ pc' = "return"
    /\ UNCHANGED <<chan, cur, hist, conf, sounds, payload, result, audio_path, disk, ticker>>

\* process_clipboard_and_paste returns, by its last expression, a `?` or a
\* `return`: the temp guards drop.
Return ==
    /\ pc = "return"
    /\ temps' = Drop(guards, temps)
    /\ guards' = {}
    /\ pc' = "report"
    /\ UNCHANGED <<chan, cur, hist, clip, holding, conf, sounds, cycle, ticker>>

\* A mutant of Report: a cycle that returned an error ends the worker loop.
Report_BreakOnError ==
    /\ pc = "report"
    /\ ended' = Append(ended, cur)
    /\ pc' = IF IsErr(ret) THEN "dead" ELSE "ended"
    /\ sounds' = IF IsErr(ret) THEN play_sound(sounds, "Error")
                 ELSE IF beeps THEN play_sound(sounds, "Success") ELSE sounds
    /\ UNCHANGED <<chan, cur, started, simulated, clip, holding, conf, cycle, disk, ticker>>

\* main's match on process_result (the sounds) and "Worker ready": the
\* cycle has ended.
Report ==
    /\ pc = "report"
    /\ ended' = Append(ended, cur)
    /\ pc' = "ended"
    /\ sounds' = IF IsErr(ret) THEN play_sound(sounds, "Error")
                 ELSE IF beeps THEN play_sound(sounds, "Success") ELSE sounds
    /\ UNCHANGED <<chan, cur, started, simulated, clip, holding, conf, cycle, disk, ticker>>

\* The loop goes back to the channel; the cycle's locals are gone.
NextIteration ==
    /\ pc = "ended"
    /\ pc' = "recv"
    /\ cur' = 0
    /\ payload' = NoContent /\ result' = None /\ ret' = None /\ audio_path' = None
    /\ log' = <<>> /\ sounds' = <<>>
    /\ UNCHANGED <<chan, hist, clip, holding, conf, disk, ticker>>

\* main's `listen(callback)`: the listener is set up and delivers events
\* from then on, or the setup fails and main returns the error, which ends
\* the process and its worker thread with it.
Listen ==
    /\ listening = "setup"
    /\ \E ok \in BOOLEAN :
         IF ok
         THEN listening' = "on" /\ UNCHANGED pc
         ELSE listening' = "failed" /\ pc' = "exited"
    /\ UNCHANGED <<sent, queue, rx_open, cur, hist, clip, holding, conf, sounds, cycle, disk, ticker>>

Listener == Listen \/ \E e \in EventKinds : ListenerCallback(e)

\* What the user copies between two cycles: a text or an image.
Copies == { MkClip(None, None, Some(<<"t">>)), MkClip(None, Some("bmp_ok"), None) }

Environment == \E c \in Copies : UserCopies(c)

Worker ==
    \/ WorkerStart \/ WorkerRecv \/ OpenClipboard \/ Capture \/ Dispatch
    \/ MkTempAudio \/ FfmpegExtract \/ Credential \/ SpawnTick
    \/ T_TempDir \/ T_EnsureMp3 \/ T_Metadata \/ T_Request \/ StopTick \/ JoinTick
    \/ MkTempImage \/ Decode \/ SavePng \/ Tesseract
    \/ Handle \/ RestoreEmpty \/ SetText \/ SendCtrlV \/ RestoreAfterPaste
    \/ RestoreAfterError \/ Return \/ Report \/ NextIteration

TickThread == tick_loop

Next == Listener \/ Environment \/ Worker \/ TickThread

Spec == Init /\ [][Next]_vars

\* The worker thread and the tick thread are scheduled fairly and every
\* call they make returns.
FairSpec == Spec /\ WF_vars(Worker) /\ WF_vars(TickThread)


\* ============================================================== the claims

\* An operation is in the log of the current cycle; its first entry.
Logged(op) == \E i \in 1..Len(log) : log[i].op = op
FirstOf(op) ==
    CHOOSE i \in 1..Len(log) : log[i].op = op /\ \A j \in 1..(i - 1) : log[j].op # op

\* The clipboard holds the payload in the payload's own format.
ClipboardHolds(c, content) ==
    IF content.tag = "FileList"
    THEN c.files = Some(content.val)
    ELSE c.bitmap = Some(content.val)

\* The cycle of the current trigger press has ended.
CycleEnded == pc = "ended"
Captured == payload # NoContent

\* A restore_clipboard call of this cycle returned an error.
RestoreFailed ==
    \E i \in 1..Len(log) : log[i].op = "restore" /\ log[i].arg.outcome # "ok"

\* restore_clipboard was called with the captured payload.
RestoreCalled ==
    \E i \in 1..Len(log) : log[i].op = "restore" /\ log[i].arg.content = payload

\* Membership in an allow-list, letter case ignored.
SameIgnoringCase(a, b) ==
    Len(a) = Len(b) /\ \A i \in 1..Len(a) : LowerChar(a[i]) = LowerChar(b[i])
ExtIn(path, list) ==
    LET ext == extension(path) IN
      /\ IsSome(ext)
      /\ \E x \in list : SameIgnoringCase(Unwrap(ext), x)

SingleFile == payload.tag = "FileList" /\ Len(payload.val) = 1
SingleAudio == SingleFile /\ ExtIn(payload.val[1], AUDIO_EXTENSIONS)
SingleVideo == SingleFile /\ ExtIn(payload.val[1], VIDEO_EXTENSIONS)
SingleOther == SingleFile /\ ~SingleAudio /\ ~SingleVideo

\* No subprocess was launched and no network request made in this cycle.
NoSubprocess ==
    ~Logged("ffmpeg_extract") /\ ~Logged("ffmpeg_convert") /\ ~Logged("tesseract")
NoNetwork == ~Logged("request")

\* C1: at the end of every cycle whose capture succeeded the clipboard holds
\* the captured payload, unless restore_clipboard itself returned an error.
C1_RestoreInvariant ==
    (CycleEnded /\ Captured /\ ~RestoreFailed) => ClipboardHolds(clip, payload)

\* The steps whose failure C2 lists.
ProcessingErrors ==
    { "TempFileCreate", "ImageDecode", "ImageSave", "FfmpegLaunch",
      "FfmpegExtractFailed", "UnsupportedFileType", "ApiKeyMissing",
      "TesseractLaunch", "TesseractFailed", "InvalidUtf8", "TempDirCreate",
      "FfmpegNotFound", "FfmpegExec", "FfmpegConvertFailed", "Metadata",
      "FileTooLarge", "FileEmpty", "ApiRequest" }

\* C2: whenever a backend or media-preparation step of a cycle fails,
\* restore_clipboard has been called with the captured payload by the time
\* the cycle ends.
C2_RestoreOnFailure ==
    (CycleEnded /\ Captured /\ IsErr(ret) /\ ret[2] \in ProcessingErrors)
        => RestoreCalled

\* C3: once a cycle has ended, on whatever path, no temp artifact exists
\* and no temp guard is alive.
C3_TempCleanup ==
    pc \in {"report", "ended", "recv"} => temps = {} /\ guards = {}

\* C3 witness: a cycle has ended in which the extracted-audio temp file was
\* created and ffmpeg then failed to launch, before producing any output.
C3_Witness ==
    /\ CycleEnded
    /\ \E i \in 1..Len(log) : log[i].op = "ffmpeg_extract" /\ log[i].arg = "not_found"
    /\ temps = {}


\* The indexes held by a sequence of indexes.
Range(q) == {q[i] : i \in 1..Len(q)}

\* C4: cycles run one after another in the arrival order of their trigger
\* presses: the cycles started are in arrival order, every cycle but the
\* last started has ended, in the same order, and a payload is held only by
\* the one cycle in progress.
C4_Sequential ==
    /\ \A i, j \in 1..Len(started) : i < j => started[i] < started[j]
    /\ Len(started) - Len(ended) \in {0, 1}
    /\ ended = SubSeq(started, 1, Len(ended))
    /\ \A i \in Range(queue) : IsTrigger(sent[i]) => \A j \in Range(started) : j < i
    /\ Captured => cur = started[Len(started)]

\* C4 witness: a cycle is in progress with its payload captured while a
\* later trigger press waits in the channel.
C4_Witness ==
    /\ pc = "handle"
    /\ Captured
    /\ \E i \in Range(queue) : IsTrigger(sent[i]) /\ i > cur

\* C5: no trigger press the listener callback delivered is dropped: it is
\* in the channel or its cycle has started.
C5_NoPressDropped ==
    \A i \in 1..Len(sent) :
        IsTrigger(sent[i]) => i \in Range(queue) \/ i \in Range(started)

\* With the worker's runtime created, every delivered trigger press
\* eventually starts its cycle (under FairSpec).
LiveWhenRunning ==
    \A i \in 1..MaxEvents :
        (pc # "boot" /\ pc # "dead" /\ i <= Len(sent) /\ IsTrigger(sent[i]))
            ~> (i \in Range(started))

\* C6 as claimed: a file list with 0 or with 2 or more entries ends the
\* cycle with the file-count error, no subprocess, no transcription, no
\* text write, no paste, and the clipboard holding the original payload.
C6_AsClaimed ==
    (CycleEnded /\ payload.tag = "FileList" /\ Len(payload.val) # 1)
        => /\ ret = Err("UnsupportedFileCount")
           /\ NoSubprocess /\ NoNetwork /\ ~Logged("transcribe")
           /\ ~Logged("set_text") /\ ~Logged("simulate") /\ ~Logged("simulate_error")
           /\ ClipboardHolds(clip, payload)

\* C6, amended: as claimed, with restore_clipboard called once with the
\* original payload; the clipboard holds it at the end of the cycle unless
\* that restore call itself failed.
C6_FileCount ==
    (CycleEnded /\ payload.tag = "FileList" /\ Len(payload.val) # 1)
        => /\ ret = Err("UnsupportedFileCount")
           /\ NoSubprocess /\ NoNetwork /\ ~Logged("transcribe")
           /\ ~Logged("set_text") /\ ~Logged("simulate") /\ ~Logged("simulate_error")
           /\ RestoreCalled /\ CountOf("restore") = 1
           /\ ~RestoreFailed => ClipboardHolds(clip, payload)

\* C6 witness: a cycle on a two-file list has ended with the file-count
\* error and the restore done.
C6_Witness ==
    /\ CycleEnded
    /\ payload.tag = "FileList" /\ Len(payload.val) = 2
    /\ ret = Err("UnsupportedFileCount")
    /\ RestoreCalled /\ ~RestoreFailed

\* C7 as claimed: in a cycle on a single audio file ffmpeg is never
\* invoked.
C7_AsClaimed ==
    SingleAudio => ~Logged("ffmpeg_extract") /\ ~Logged("ffmpeg_convert")

\* The file transcribe was called with, when it was called.
TranscribeArg == log[FirstOf("transcribe")].arg

\* C7, amended: a single audio file goes to transcription as it is, with no
\* ffmpeg extraction; ffmpeg runs in that cycle only as ensure_mp3's
\* conversion, at most once, and not at all when the extension is mp3.
C7_AudioDirect ==
    SingleAudio =>
        /\ ~Logged("ffmpeg_extract")
        /\ Logged("transcribe") => TranscribeArg = payload.val[1]
        /\ CountOf("ffmpeg_convert") <= 1
        /\ SameIgnoringCase(Unwrap(extension(payload.val[1])), <<"m","p","3">>)
             => ~Logged("ffmpeg_convert")

\* C7 witness: a single mp3 file was uploaded and no ffmpeg run was made.
C7_Witness ==
    /\ CycleEnded /\ SingleAudio
    /\ SameIgnoringCase(Unwrap(extension(payload.val[1])), <<"m","p","3">>)
    /\ Logged("request")
    /\ ~Logged("ffmpeg_convert")

\* The ffmpeg extraction of this cycle exited successfully.
ExtractionSucceeded ==
    \E i \in 1..Len(log) : log[i].op = "ffmpeg_extract" /\ log[i].arg = "success"

\* An entry op logged before the first entry op2.
LoggedBefore(op, arg, op2) ==
    \E i \in 1..Len(log) :
        log[i].op = op /\ log[i].arg = arg /\ i < FirstOf(op2)

\* C8: for a single-entry file list the route is decided by the extension,
\* letter case ignored: an audio extension sends the file itself to
\* transcription; a video extension runs the ffmpeg extraction first and
\* sends only the extracted file, and only after a successful extraction;
\* any other extension, a missing one included, ends the cycle with the
\* unsupported-file-type error, no subprocess and no network call.
C8_ExtensionRouting ==
    /\ SingleAudio =>
         /\ ~Logged("ffmpeg_extract")
         /\ audio_path # None => audio_path = Some(payload.val[1])
         /\ Logged("transcribe") => TranscribeArg = payload.val[1]
         /\ CycleEnded => ret # Err("UnsupportedFileType")
    /\ SingleVideo =>
         /\ audio_path # None =>
              /\ audio_path = Some(EXTRACTED_MP3)
              /\ ExtractionSucceeded
         /\ Logged("transcribe") =>
              /\ TranscribeArg = EXTRACTED_MP3
              /\ LoggedBefore("ffmpeg_extract", "success", "transcribe")
         /\ CycleEnded => ret # Err("UnsupportedFileType")
         /\ CycleEnded => Logged("ffmpeg_extract") \/ ret = Err("TempFileCreate")
    /\ SingleOther =>
         /\ NoSubprocess /\ NoNetwork /\ ~Logged("transcribe")
         /\ audio_path = None
         /\ CycleEnded => ret = Err("UnsupportedFileType")

\* C8 witness: a cycle on a single video file, named with upper-case
\* letters in its extension, has ended after the extracted file was
\* uploaded.
C8_Witness ==
    /\ CycleEnded /\ SingleVideo
    /\ payload.val[1] = A_MP4
    /\ Logged("request")

\* C9: with no credential configured, a cycle on a single audio or video
\* file fails with the credential-missing error before any subprocess is
\* launched and before any network request.
C9_FailFast ==
    (~api_key /\ (SingleAudio \/ SingleVideo))
        => /\ NoSubprocess /\ NoNetwork
           /\ CycleEnded => ret = Err("ApiKeyMissing")

\* The size transcribe read for the file it is about to upload.
RequestSizes == {log[i].arg : i \in {j \in 1..Len(log) : log[j].op = "request"}}
MetadataSizes ==
    {Unwrap(log[i].arg) : i \in {j \in 1..Len(log) :
                                   log[j].op = "metadata" /\ IsSome(log[j].arg)}}

\* C10: a request is sent only for a file of 1 to 26,214,400 bytes; a file
\* of 26,214,401 bytes or more is rejected as too large and an empty file
\* as empty, both with no request sent.
C10_SizeCeiling ==
    /\ \A m \in RequestSizes : IsSome(m) /\ 1 <= Unwrap(m) /\ Unwrap(m) <= 26214400
    /\ \A n \in MetadataSizes :
         /\ n >= 26214401 => result = Err("FileTooLarge") /\ ~Logged("request")
         /\ n = 0 => result = Err("FileEmpty") /\ ~Logged("request")

\* C10 witness: a file of exactly 26,214,400 bytes was uploaded.
C10_Witness ==
    \E m \in RequestSizes : m = Some(26214400)

\* The backend returned text that is empty once its white space is trimmed.
EmptyResult ==
    IsOk(result) /\ \A i \in 1..Len(result[2]) : result[2][i] \in WhiteSpace

\* C11: when the backend's text is empty after trimming, the cycle writes no
\* text to the clipboard and injects no key event, calls restore_clipboard
\* once with the captured payload, and returns Ok unless that restore
\* failed.
C11_EmptyResultSkip ==
    EmptyResult =>
        /\ ~Logged("set_text") /\ ~Logged("simulate") /\ ~Logged("simulate_error")
        /\ pc \notin {"set_text", "paste", "restore_ok", "restore_err"}
        /\ CycleEnded =>
             /\ RestoreCalled /\ CountOf("restore") = 1
             /\ IsOk(ret) <=> ~RestoreFailed
             /\ IsErr(ret) => ret = Err("Restore")

\* C11 witness: a cycle whose backend returned white space only has ended
\* with the payload restored and Ok returned.
C11_Witness ==
    /\ CycleEnded /\ EmptyResult
    /\ result[2] # <<>>
    /\ RestoreCalled /\ IsOk(ret)

\* The cycle of the current trigger press is over and its capture failed.
CaptureFailed == pc \in {"report", "ended"} /\ cur # 0 /\ ~Captured

\* C12: when the capture fails the cycle ends at once: the capture and the
\* print of its error are the only operations of the cycle (no restore, no
\* clipboard write, no subprocess, no network call), the error printed is
\* the capture error, and it is what the cycle returns.
C12_CaptureFailure ==
    CaptureFailed =>
        /\ Len(log) = 2
        /\ log[1].op = "capture" /\ IsErr(log[1].arg.res)
        /\ log[2].op = "eprintln" /\ log[2].arg = log[1].arg.res[2]
        /\ ret = log[1].arg.res
        /\ temps = {} /\ tick = 0

\* C12 witness: a cycle has ended whose capture found neither a file list
\* nor a bitmap on a clipboard it could open.
C12_Witness ==
    /\ CycleEnded /\ ~Captured
    /\ ret = Err("NoSupportedFormat")

\* The position of the restore call of the cycle that failed, if any.
FailedRestoreAt(i) == log[i].op = "restore" /\ log[i].arg.outcome # "ok"

\* Processing has failed and the restore that followed it has failed too.
BothFailed == IsErr(result) /\ pc \in {"return", "report", "ended"} /\ RestoreFailed

\* C13: when processing fails and the restore after it fails as well, the
\* cycle returns the processing error; the processing error is printed
\* before the restore and the restore error is printed after it, and the
\* restore error never becomes the cycle's error.
C13_OriginalErrorKept ==
    BothFailed =>
        /\ ret = result
        /\ ret # Err("Restore")
        /\ \A i \in 1..Len(log) : FailedRestoreAt(i) =>
             /\ i > 1 /\ log[i - 1].op = "eprintln" /\ log[i - 1].arg = result[2]
             /\ i < Len(log) /\ log[i + 1].op = "eprintln" /\ log[i + 1].arg = "Restore"

\* C13 witness: a cycle has ended whose transcription failed and whose
\* restore failed.
C13_Witness ==
    /\ CycleEnded /\ BothFailed
    /\ Logged("transcribe")

\* The error message was written with eprintln.
Printed(e) == \E i \in 1..Len(log) : log[i].op = "eprintln" /\ log[i].arg = e

\* C14: every error that ends a cycle after a successful capture has been
\* printed by the time the worker is ready for the next trigger.
C14_EveryErrorPrinted ==
    (CycleEnded /\ Captured /\ IsErr(ret)) => Printed(ret[2])

\* The worker is inside a cycle: between taking a trigger press from the
\* channel and going back to the channel.
InCycle == pc \notin {"boot", "recv", "dead", "exited"}

\* C15: no cycle outcome ends the worker loop or the process. A step taken
\* inside a cycle never leaves the worker dead or the process exited and
\* never closes the channel; an ended cycle goes back to waiting on the
\* channel; the process exits only by the listener setup failing, before any
\* event was delivered; and every cycle leads back to the wait (FairSpec).
C15_CycleNeverTerminates ==
    /\ [][ /\ InCycle => (pc' \notin {"dead", "exited"} /\ rx_open' = rx_open)
           /\ pc = "ended" => pc' \in {"ended", "recv"}
           /\ (pc' = "exited" /\ pc # "exited") =>
                (listening = "setup" /\ listening' = "failed" /\ sent = <<>>)
         ]_vars
    /\ InCycle ~> (pc = "recv")

\* C15 witness: the worker waits on the channel again, with the listener
\* on and another trigger press queued, after a cycle has ended.
C15_Witness ==
    /\ pc = "recv" /\ listening = "on" /\ rx_open
    /\ Len(ended) >= 1
    /\ \E i \in Range(queue) : IsTrigger(sent[i])

\* The backend returned text that is not empty after trimming.
NonEmptyResult == IsOk(result) /\ ~EmptyResult

\* t is s without its leading and trailing white space.
IsTrimOf(t, s) ==
    /\ t # <<>> /\ t[1] \notin WhiteSpace /\ t[Len(t)] \notin WhiteSpace
    /\ \E k \in 0..(Len(s) - Len(t)) :
         /\ SubSeq(s, k + 1, k + Len(t)) = t
         /\ \A i \in (1..k) \cup ((k + Len(t) + 1)..Len(s)) : s[i] \in WhiteSpace

\* The i-th log entry is the injection of one key event.
Injected(i, type, key) ==
    /\ i >= 1 /\ log[i].op = "simulate"
    /\ log[i].arg = [event_type |-> type, key |-> key]

\* C16: in a cycle whose result is not empty after trimming, the text
\* write, the four injections and the restore come in this order: every
\* injection attempt follows a text write that succeeded and wrote the
\* trimmed text, the injections are Control-down, V-down, V-up, Control-up
\* one after the other, the only restore comes right after the fourth, and a
\* cycle that returned Ok has made all of them.
C16_PasteOrder ==
    NonEmptyResult =>
        /\ CountOf("set_text") <= 1 /\ CountOf("simulate") <= 4
        /\ CountOf("restore") <= 1
        /\ \A i \in 1..Len(log) :
             /\ log[i].op = "set_text" => IsTrimOf(log[i].arg.text, result[2])
             /\ log[i].op \in {"simulate", "simulate_error"} =>
                  \E j \in 1..(i - 1) :
                      /\ log[j].op = "set_text" /\ log[j].arg.outcome = "ok"
                      /\ \A k \in (j + 1)..(i - 1) : log[k].op = "simulate"
             /\ log[i].op = "restore" =>
                  /\ i >= 6
                  /\ log[i - 5].op = "set_text" /\ log[i - 5].arg.outcome = "ok"
                  /\ Injected(i - 4, "KeyPress", "ControlLeft")
                  /\ Injected(i - 3, "KeyPress", "KeyV")
                  /\ Injected(i - 2, "KeyRelease", "KeyV")
                  /\ Injected(i - 1, "KeyRelease", "ControlLeft")
                  /\ log[i].arg.content = payload
        /\ (pc \in {"return", "report", "ended"} /\ IsOk(ret)) =>
             (Logged("restore") /\ log[Len(log)].op = "restore")

\* C16 witness: a cycle with surrounding white space in its result has
\* ended after the text write, the four injections and the restore.
C16_Witness ==
    /\ CycleEnded /\ NonEmptyResult /\ IsOk(ret)
    /\ result[2][1] \in WhiteSpace
    /\ CountOf("simulate") = 4 /\ Logged("restore")

\* The program points at which a subprocess (ffmpeg, Tesseract), the
\* transcription call, a key injection or a settle delay is in progress.
ExternalWork ==
    {"ffmpeg_extract", "spawn_tick", "t_tempdir", "t_ensure_mp3", "t_metadata",
     "t_request", "stop_tick", "join_tick", "tesseract", "paste"}

\* A clipboard function that had opened the clipboard has returned an error.
ClipboardErrorReturn ==
    \E i \in 1..Len(log) :
        \/ log[i].op = "capture" /\ log[i].arg.opened /\ IsErr(log[i].arg.res)
        \/ log[i].op = "restore" /\ log[i].arg.outcome \in {"write_failed", "write_failed_cleared"}
        \/ log[i].op = "set_text" /\ log[i].arg.outcome \in {"write_failed", "write_failed_cleared"}

\* C17: the worker holds the clipboard only inside get_clipboard_content,
\* set_clipboard_string_helper and restore_clipboard; once any of them has
\* returned, with a value or an error, the clipboard is released, and it is
\* never held while a subprocess, the transcription, a key injection or a
\* settle delay is in progress.
C17_ClipboardHeldOnlyInside ==
    /\ holding => pc \in ClipboardCalls
    /\ pc \in ExternalWork => ~holding
    /\ pc \in {"recv", "return", "report", "ended", "dispatch", "handle"} => ~holding

\* C17 witness: a clipboard function that had the clipboard open has
\* returned an error and the cycle has ended.
C17_Witness ==
    /\ CycleEnded /\ ClipboardErrorReturn /\ ~holding

\* The i-th log entry is a subprocess launch or the transcription request.
ExternalCall(i) ==
    log[i].op \in {"ffmpeg_extract", "ffmpeg_convert", "tesseract", "request"}

\* The i-th log entry is an external call that failed: a subprocess that
\* did not run to a zero exit status, or a request that returned an error.
FailedCall(i) ==
    \/ log[i].op \in {"ffmpeg_extract", "ffmpeg_convert", "tesseract"}
         /\ log[i].arg # "success"
    \/ log[i].op = "request" /\ result = Err("ApiRequest")

\* C18: in one cycle ffmpeg is launched at most once (extraction or
\* normalization, never both), Tesseract at most once and the transcription
\* request is made at most once; no external call follows one that failed.
C18_NoRetry ==
    /\ CountOf("ffmpeg_extract") + CountOf("ffmpeg_convert") <= 1
    /\ CountOf("tesseract") <= 1
    /\ CountOf("request") <= 1
    /\ \A i \in 1..Len(log) :
         (ExternalCall(i) /\ FailedCall(i)) =>
             \A j \in (i + 1)..Len(log) : ~ExternalCall(j)

\* C18 witness: a video cycle has ended after one ffmpeg launch, the
\* extraction, and one transcription request, which failed.
C18_Witness ==
    /\ CycleEnded /\ SingleVideo
    /\ CountOf("ffmpeg_extract") = 1 /\ CountOf("request") = 1
    /\ result = Err("ApiRequest")

\* The capture entry a returned the payload of format tag with value v.
Returned(a, tag, v) ==
    IsOk(a.res) /\ a.res[2].tag = tag /\ v = Some(a.res[2].val)

\* C19: get_clipboard_content returns the file list whenever the file-list
\* read succeeds, a bitmap being present or not; the bitmap exactly when the
\* file-list read fails and the bitmap read succeeds; an error exactly when
\* the clipboard could not be opened or both reads fail. The clipboard is
\* released once it has returned.
C19_CaptureOrder ==
    \A i \in 1..Len(log) : log[i].op = "capture" =>
        LET a == log[i].arg IN
          /\ IsSome(a.fl) => Returned(a, "FileList", a.fl)
          /\ (IsOk(a.res) /\ a.res[2].tag = "FileList") => IsSome(a.fl)
          /\ (IsOk(a.res) /\ a.res[2].tag = "Bitmap") <=>
                (a.opened /\ ~IsSome(a.fl) /\ IsSome(a.bmp))
          /\ (~IsSome(a.fl) /\ IsSome(a.bmp)) => Returned(a, "Bitmap", a.bmp)
          /\ IsErr(a.res) <=> (~a.opened \/ (~IsSome(a.fl) /\ ~IsSome(a.bmp)))
          /\ pc # "capture"
          /\ pc \in {"dispatch", "report"} => ~holding

\* C19 witness: the clipboard held a file list and a bitmap, both reads
\* would succeed, and the file list was captured.
C19_Witness ==
    /\ pc = "dispatch" /\ ~holding
    /\ IsSome(log[1].arg.fl) /\ IsSome(log[1].arg.bmp)
    /\ payload.tag = "FileList"

\* The ffmpeg launch of the cycle, by one of its two call sites, had the
\* outcome o; the launch has returned.
Launched(site, o) ==
    \E i \in 1..Len(log) : log[i].op = site /\ log[i].arg = o

\* The errors the two call sites give when ffmpeg is not found: the context
\* of main.rs:278-280 and the NotFound branch of transcribe.rs:74-79.
ExtractToolMissing == Err("FfmpegLaunch")
ConvertToolMissing == Err("FfmpegNotFound")

\* C20: at both ffmpeg call sites the tool-missing error is the outcome of
\* ffmpeg not being found and of nothing else: another launch I/O failure
\* and a non-zero exit status give different errors.
C20_ToolMissingDistinct ==
    /\ \A o \in ProcessOutcomes \ {"success"} :
         (Launched("ffmpeg_extract", o) /\ pc \in {"return", "report", "ended"}) =>
             (ret = ExtractToolMissing <=> o = "not_found")
    /\ \A o \in ProcessOutcomes \ {"success"} :
         (Launched("ffmpeg_convert", o) /\ pc \in {"stop_tick", "join_tick", "handle"}) =>
             (result = ConvertToolMissing <=> o = "not_found")

\* The event is not a press of the trigger key: a release, a press of
\* another key, or no keyboard event at all.
NotTriggerPress(e) == e.event_type # "KeyPress" \/ e.key # target_key

\* The worker takes the oldest event from the channel.
Dequeues == pc = "recv" /\ queue # <<>> /\ queue' = Tail(queue)

\* C21: when the worker dequeues an event that is not a press of the
\* trigger key, it starts no cycle and nothing but the channel changes: the
\* clipboard, the hold on it, the temp artifacts, the log of external
\* operations (subprocesses, request, injections) and the sounds stay as
\* they are, and the worker is back at the channel.
C21_OtherEventsIgnored ==
    [][ (Dequeues /\ NotTriggerPress(sent[Head(queue)])) =>
            /\ pc' = "recv"
            /\ UNCHANGED <<started, ended, cur, clip, holding, temps, guards,
                           log, sounds, tick, tick_stop, payload, result, ret, audio_path>>
      ]_vars

\* C21 witness: the listener delivered a mouse event first and the worker
\* has taken it from the channel without starting a cycle.
C21_Witness ==
    /\ pc = "recv" /\ rx_open
    /\ Len(sent) >= 1 /\ sent[1].event_type = "MouseMove"
    /\ 1 \notin Range(queue)
    /\ started = <<>>

\* The program points of the transcription call, from the spawn of the
\* tick thread to the return of its join.
Transcribing ==
    {"t_tempdir", "t_ensure_mp3", "t_metadata", "t_request", "stop_tick", "join_tick"}

\* C22: a tick thread is alive only during the transcription call of a
\* cycle that passed the credential check; there is never more than one;
\* none is alive when the result is handled, the text is written, the
\* restore runs or the cycle has ended, whatever the transcription
\* returned; and the join always returns (FairSpec).
C22_TickThreadJoined ==
    /\ [](tick <= 1)
    /\ [](tick > 0 => (pc \in Transcribing /\ api_key /\ Logged("transcribe")))
    /\ [](pc \in {"handle", "set_text", "paste", "restore_ok", "restore_empty",
                  "restore_err", "return", "report", "ended", "recv"} => tick = 0)
    /\ [](tick_stop => pc = "join_tick")
    /\ (pc = "join_tick") ~> (pc = "handle" /\ tick = 0)

\* C22 witness: a cycle whose transcription failed has ended, its tick
\* thread spawned and joined.
C22_Witness ==
    /\ CycleEnded /\ Logged("transcribe")
    /\ IsErr(result)
    /\ tick = 0 /\ ~tick_stop

\* The key was injected down at log position i and up at a later position.
ReleasedAfter(i) ==
    \E j \in (i + 1)..Len(log) :
        /\ log[j].op = "simulate"
        /\ log[j].arg = [event_type |-> "KeyRelease", key |-> log[i].arg.key]

\* C23: no cycle ends with a key injected down and not released: every
\* injected key press is followed, in the same cycle, by the injection of
\* the release of that key, also when an injection fails.
C23_KeysReleased ==
    CycleEnded =>
        \A i \in 1..Len(log) :
            (log[i].op = "simulate" /\ log[i].arg.event_type = "KeyPress")
                => ReleasedAfter(i)

\* The trigger-key presses the user made, by their position in sent.
UserPresses == {i \in 1..Len(sent) : i \notin simulated /\ IsTrigger(sent[i])}

\* C24: the key events the paste simulation injects, which the listener
\* forwards to the channel like any other event, never start a cycle,
\* whichever key is configured as the trigger key: every started cycle is
\* that of a trigger press the user made, and there are no more cycles than
\* such presses.
C24_NoSelfTrigger ==
    /\ \A i \in Range(started) : i \notin simulated
    /\ Len(started) <= Cardinality(UserPresses)

====
